---- MODULE Spec2Model ----
(***************************************************************************)
(* Model of the two scripts of the repository:                             *)
(*   scripts/test_client.py    the seven-step JSON-RPC protocol probe      *)
(*   scripts/verify_config.py  the configuration audit and handshake       *)
(* The subprocess ("./mcp-server") and the filesystem are the environment. *)
(***************************************************************************)
EXTENDS Integers, Sequences, FiniteSets, TLC

\* Number of requests of the fixed script of test_client.py main().
NumSteps == 7

\* Bound: lines the subprocess may have written that the probe has not read.
MaxPipe == 1

VARIABLES
    script,          \* which script was started ("test_client" / "verify_config")
    binOk,           \* filesystem: "./mcp-server" can be executed by Popen
    \* ---- test_client.py ----
    pc,              \* position of main() of test_client.py
    step,            \* number of the step main() is in (1..NumSteps)
    proc,            \* subprocess of the probe: "none", "running", "exited", "reaped"
    sent,            \* request ids written to proc.stdin, in order
    stdoutPipe,      \* lines written by the subprocess, not yet read
    response,        \* value returned by the current send_request call
    console,         \* outcome lines printed by main() of test_client.py
    resolved,        \* ids whose send_request call has finished reading
    errStep,         \* step in which an exception was raised (0: none)
    terminateCalls,  \* number of proc.terminate() calls
    waitCalls,       \* number of proc.wait() calls
    answered,        \* number of requests the subprocess has answered in order
    conforming,      \* the subprocess wrote only one id-matching line per request
    \* ---- verify_config.py ----
    cfg,             \* filesystem: state of ~/.claude-code/mcp_servers.json
    cmdPath,         \* filesystem: value of the "command" field
    cmdExists,       \* filesystem: os.path.exists(command_path)
    cmdExec,         \* filesystem: os.access(command_path, os.X_OK)
    apc,             \* position of main() of verify_config.py
    config_ok,       \* result of check_config_file (FALSE before the call)
    server_ok,       \* result of test_server (FALSE before the call)
    evaluated,       \* checks evaluated by check_config_file, in order
    aconsole,        \* outcome lines printed by verify_config.py
    aproc,           \* subprocess of test_server: "none", "running", "exited", "reaped"
    spawnedPath,     \* executable handed to Popen by test_server ("" : none)
    spawnAttempts,   \* number of Popen calls of test_server
    requestsSent,    \* number of requests handed to communicate
    astdout,         \* the subprocess of test_server wrote output
    returncode,      \* exit status of the subprocess of test_server (-1: none)
    killCalls,       \* number of process.kill() calls
    awaitCalls,      \* number of times the subprocess of test_server was waited for
    exitCode         \* exit status of verify_config.py (-1 while running)

probeVars == <<pc, step, proc, sent, stdoutPipe, response, console, resolved,
               errStep, terminateCalls, waitCalls, answered, conforming>>
fsVars    == <<cfg, cmdPath, cmdExists, cmdExec>>
auditVars == <<apc, config_ok, server_ok, evaluated, aconsole, aproc,
               spawnedPath, spawnAttempts, requestsSent, astdout, returncode,
               killCalls, awaitCalls, exitCode>>
vars      == <<script, binOk, probeVars, fsVars, auditVars>>

Range(s) == {s[i] : i \in 1..Len(s)}

----------------------------------------------------------------------------
\* JSON-RPC lines of the subprocess, as send_request distinguishes them.

\* Fields of "result" that the steps of main() read.
Fields == {"tools", "content", "resources", "contents"}

\* Contents of "result" the subprocess chooses from.
ResultShapes == {{}, Fields}

Line(kind, id, fields) == [kind |-> kind, id |-> id, fields |-> fields]

\* "blank":   only whitespace          "garbage": not JSON
\* "falsy":   JSON that Python treats as false ({} [] 0 null "")
\* "scalar":  a JSON number or true    "error": an object without "result"
\* "result":  an object with "result", holding the given fields
NonObjectLines == {Line(k, 0, {}) : k \in {"blank", "garbage", "falsy", "scalar"}}

ObjectLines(ids) ==
    {Line("error", i, {}) : i \in ids}
        \cup {Line("result", i, f) : i \in ids, f \in ResultShapes}

\* send_request returning None.
None == Line("none", 0, {})

\* Variant of RequestId: the call of step 4 was copied from step 3 and kept
\* its id.
RequestIdReuse(k) == IF k = 4 THEN 3 ELSE k

\* The id send_request puts in the request of step k (the literal 1..7).
RequestId(k) == k

\* The field of "result" step k subscripts ("" : none).
StepField(k) ==
    CASE k = 2 -> "tools"
      [] k \in {3, 4, 5} -> "content"
      [] k = 6 -> "resources"
      [] k = 7 -> "contents"
      [] OTHER -> ""

\* `response and "result" in response`; "raise" is the TypeError of
\* `"result" in <number>`.
ResultTest(r) ==
    CASE r.kind \in {"none", "falsy", "error"} -> "false"
      [] r.kind = "scalar" -> "raise"
      [] OTHER -> "true"

\* The subscripting of the response in the body of the if: KeyError when the
\* field is absent.
Extracts(k, r) == StepField(k) = "" \/ StepField(k) \in r.fields

Outcome(k, o) == [step |-> k, outcome |-> o]

----------------------------------------------------------------------------
\* Filesystem and configuration inputs.

\* The executable test_server and test_client hand to Popen, and another one
\* a configuration may name.
LocalServer == "./mcp-server"
OtherServer == "/opt/mcp/other-server"
Paths == {LocalServer, OtherServer}

\* ~/.claude-code/mcp_servers.json: absent, not JSON, JSON without the server
\* key, server entry without "command", server entry with "command".
CfgStates == {"missing", "badjson", "nokey", "nocommand", "present"}

InitFs ==
    /\ script \in {"test_client", "verify_config"}
    /\ binOk \in BOOLEAN
    /\ IF script = "verify_config"
       THEN /\ cfg \in CfgStates
            /\ IF cfg = "present"
               THEN /\ cmdPath \in Paths
                    /\ cmdExists \in BOOLEAN
                    /\ cmdExec \in BOOLEAN
                    /\ cmdExec => cmdExists
                    /\ (cmdPath = LocalServer) => (binOk = cmdExec)
               ELSE /\ cmdPath = ""
                    /\ cmdExists = FALSE
                    /\ cmdExec = FALSE
       ELSE /\ cfg = "missing"
            /\ cmdPath = ""
            /\ cmdExists = FALSE
            /\ cmdExec = FALSE

InitProbe ==
    /\ pc = IF script = "test_client" THEN "spawn" ELSE "idle"
    /\ step = 1
    /\ proc = "none"
    /\ sent = <<>>
    /\ stdoutPipe = <<>>
    /\ response = None
    /\ console = <<>>
    /\ resolved = {}
    /\ errStep = 0
    /\ terminateCalls = 0
    /\ waitCalls = 0
    /\ answered = 0
    /\ conforming = TRUE

InitAudit ==
    /\ apc = IF script = "verify_config" THEN "check_config" ELSE "idle"
    /\ config_ok = FALSE
    /\ server_ok = FALSE
    /\ evaluated = <<>>
    /\ aconsole = <<>>
    /\ aproc = "none"
    /\ spawnedPath = ""
    /\ spawnAttempts = 0
    /\ requestsSent = 0
    /\ astdout = FALSE
    /\ returncode = -1
    /\ killCalls = 0
    /\ awaitCalls = 0
    /\ exitCode = -1

Init == InitFs /\ InitProbe /\ InitAudit

----------------------------------------------------------------------------
\* test_client.py

probeIdle == UNCHANGED <<script, binOk, fsVars, auditVars>>

\* subprocess.Popen(["./mcp-server"], ...) before the try block: a failure
\* to execute the file leaves main() with the exception.
Spawn ==
    /\ pc = "spawn"
    /\ IF binOk
       THEN /\ proc' = "running"
            /\ pc' = "write"
       ELSE /\ proc' = proc
            /\ pc' = "crashed"
    /\ UNCHANGED <<step, sent, stdoutPipe, response, console, resolved,
                   errStep, terminateCalls, waitCalls, answered, conforming>>
    /\ probeIdle

\* Variant of Write: send_request returns after the flush without reading.
WriteNoRead ==
    /\ pc = "write"
    /\ IF proc = "running"
       THEN /\ sent' = Append(sent, RequestId(step))
            /\ pc' = "check"
            /\ errStep' = errStep
       ELSE /\ sent' = sent
            /\ pc' = "except"
            /\ errStep' = step
    /\ UNCHANGED <<step, proc, stdoutPipe, response, console, resolved,
                   terminateCalls, waitCalls, answered, conforming>>
    /\ probeIdle

\* Variant of Write: send_request writes the request line twice.
WriteTwice ==
    /\ pc = "write"
    /\ IF proc = "running"
       THEN /\ sent' = sent \o <<RequestId(step), RequestId(step)>>
            /\ pc' = "read"
            /\ errStep' = errStep
       ELSE /\ sent' = sent
            /\ pc' = "except"
            /\ errStep' = step
    /\ UNCHANGED <<step, proc, stdoutPipe, response, console, resolved,
                   terminateCalls, waitCalls, answered, conforming>>
    /\ probeIdle

\* send_request, first half: build the request, write it, flush. Writing to
\* the pipe of a subprocess that has exited raises BrokenPipeError.
Write ==
    /\ pc = "write"
    /\ IF proc = "running"
       THEN /\ sent' = Append(sent, RequestId(step))
            /\ pc' = "read"
            /\ errStep' = errStep
       ELSE /\ sent' = sent
            /\ pc' = "except"
            /\ errStep' = step
    /\ UNCHANGED <<step, proc, stdoutPipe, response, console, resolved,
                   terminateCalls, waitCalls, answered, conforming>>
    /\ probeIdle

\* send_request, second half: readline() blocks until a line or end of file,
\* then strip, json.loads, return. json.loads raises on a line that is not
\* JSON; an empty line and end of file give None.
Read ==
    /\ pc = "read"
    /\ \/ /\ stdoutPipe # <<>>
          /\ stdoutPipe' = Tail(stdoutPipe)
          /\ LET line == Head(stdoutPipe) IN
             CASE line.kind = "garbage" ->
                    /\ response' = None
                    /\ pc' = "except"
                    /\ errStep' = step
               [] line.kind = "blank" ->
                    /\ response' = None
                    /\ pc' = "check"
                    /\ errStep' = errStep
               [] OTHER ->
                    /\ response' = line
                    /\ pc' = "check"
                    /\ errStep' = errStep
       \/ /\ stdoutPipe = <<>>
          /\ proc # "running"
          /\ stdoutPipe' = stdoutPipe
          /\ response' = None
          /\ pc' = "check"
          /\ errStep' = errStep
    /\ resolved' = resolved \cup {sent[Len(sent)]}
    /\ UNCHANGED <<step, proc, sent, console, terminateCalls, waitCalls,
                   answered, conforming>>
    /\ probeIdle

\* After the if of step k: the next send_request, or the final print.
Advance ==
    /\ IF step < NumSteps
       THEN /\ step' = step + 1
            /\ pc' = "write"
       ELSE /\ step' = step
            /\ pc' = "summary"
    /\ errStep' = errStep

\* An exception inside the try block: control goes to the except clause.
Raise ==
    /\ step' = step
    /\ pc' = "except"
    /\ errStep' = step
    /\ console' = console

\* The if after the send_request of step k. Step 1 prints a success or a
\* failure line; steps 2 to 7 subscript the result and print a success line,
\* and have no else branch.
Check ==
    /\ pc = "check"
    /\ LET t == ResultTest(response) IN
       CASE t = "raise" -> Raise
         [] t = "true" ->
              IF Extracts(step, response)
              THEN /\ console' = Append(console, Outcome(step, "pass"))
                   /\ Advance
              ELSE Raise
         [] OTHER ->
              /\ console' = IF step = 1
                            THEN Append(console, Outcome(1, "fail"))
                            ELSE console
              /\ Advance
    \* the variable is reassigned by the next send_request before any use
    /\ response' = None
    /\ UNCHANGED <<proc, sent, stdoutPipe, resolved, terminateCalls, waitCalls,
                   answered, conforming>>
    /\ probeIdle

\* print("All tests completed successfully!"), the last statement of the try.
Summary ==
    /\ pc = "summary"
    /\ console' = Append(console, Outcome(0, "completed"))
    /\ pc' = "terminate"
    /\ UNCHANGED <<step, proc, sent, stdoutPipe, response, resolved, errStep,
                   terminateCalls, waitCalls, answered, conforming>>
    /\ probeIdle

\* Variant of Except: terminate and wait sit at the end of the try body
\* instead of in a finally clause.
ExceptNoFinally ==
    /\ pc = "except"
    /\ console' = Append(console, Outcome(0, "test_failed"))
    /\ pc' = "done"
    /\ UNCHANGED <<step, proc, sent, stdoutPipe, response, resolved, errStep,
                   terminateCalls, waitCalls, answered, conforming>>
    /\ probeIdle

\* except Exception as e: print("Test failed"), then the finally clause.
Except ==
    /\ pc = "except"
    /\ console' = Append(console, Outcome(0, "test_failed"))
    /\ pc' = "terminate"
    /\ UNCHANGED <<step, proc, sent, stdoutPipe, response, resolved, errStep,
                   terminateCalls, waitCalls, answered, conforming>>
    /\ probeIdle

\* finally: proc.terminate(). SIGTERM ends a running subprocess unless it
\* handles the signal; a subprocess that has exited is left alone.
Terminate ==
    /\ pc = "terminate"
    /\ terminateCalls' = terminateCalls + 1
    /\ proc' \in IF proc = "running" THEN {"exited", "running"} ELSE {proc}
    /\ pc' = "wait"
    /\ UNCHANGED <<step, sent, stdoutPipe, response, console, resolved,
                   errStep, waitCalls, answered, conforming>>
    /\ probeIdle

\* finally: proc.wait() blocks until the subprocess has exited and reaps it.
Wait ==
    /\ pc = "wait"
    /\ proc = "exited"
    /\ waitCalls' = waitCalls + 1
    /\ proc' = "reaped"
    /\ pc' = "done"
    /\ UNCHANGED <<step, sent, stdoutPipe, response, console, resolved,
                   errStep, terminateCalls, answered, conforming>>
    /\ probeIdle

\* Ids the subprocess puts in a line: the id of the last request written to
\* it, or an id no request carries.
CandidateIds == {0} \cup (IF sent = <<>> THEN {} ELSE {sent[Len(sent)]})

\* The subprocess writes a line to its stdout. It conforms as long as every
\* line it writes is an object answering the oldest unanswered request with
\* that request's id.
ServerWrite ==
    /\ proc = "running"
    /\ Len(stdoutPipe) < MaxPipe
    /\ \E line \in NonObjectLines \cup ObjectLines(CandidateIds) :
          /\ stdoutPipe' = Append(stdoutPipe, line)
          /\ LET ok == /\ conforming
                       /\ line.kind \in {"error", "result"}
                       /\ answered < Len(sent)
                       /\ line.id = sent[answered + 1]
             IN /\ conforming' = ok
                /\ answered' = IF ok THEN answered + 1 ELSE 0
    /\ UNCHANGED <<pc, step, proc, sent, response, console, resolved, errStep,
                   terminateCalls, waitCalls>>
    /\ probeIdle

\* The subprocess exits on its own and its pipes close.
ServerExit ==
    /\ proc = "running"
    /\ proc' = "exited"
    /\ UNCHANGED <<pc, step, sent, stdoutPipe, response, console, resolved,
                   errStep, terminateCalls, waitCalls, answered, conforming>>
    /\ probeIdle

----------------------------------------------------------------------------
\* verify_config.py

auditIdle == UNCHANGED <<script, binOk, fsVars, probeVars>>

\* The checks check_config_file evaluates, in the order of the code, up to
\* and including the one that returns or raises. With no "command" field
\* command_path is None and os.path.exists(None) raises TypeError.
ConfigChecks ==
    CASE cfg = "missing" -> <<"config_exists">>
      [] cfg = "badjson" -> <<"config_exists", "json_load">>
      [] cfg = "nokey" -> <<"config_exists", "json_load", "server_key">>
      [] cfg = "nocommand" ->
            <<"config_exists", "json_load", "server_key", "command_exists">>
      [] cfg = "present" /\ ~cmdExists ->
            <<"config_exists", "json_load", "server_key", "command_exists">>
      [] OTHER ->
            <<"config_exists", "json_load", "server_key", "command_exists",
              "command_access">>

\* The lines check_config_file prints.
ConfigPrints ==
    CASE cfg = "missing" -> <<"config_not_found">>
      [] cfg = "badjson" -> <<"invalid_json">>
      [] cfg = "nokey" -> <<"server_key_not_found">>
      [] cfg = "nocommand" ->
            <<"config_found", "server_configured", "error_reading">>
      [] cfg = "present" /\ ~cmdExists ->
            <<"config_found", "server_configured", "executable_not_found">>
      [] cfg = "present" /\ ~cmdExec ->
            <<"config_found", "server_configured", "not_executable">>
      [] OTHER ->
            <<"config_found", "server_configured", "runnable">>

\* Variant of ConfigResult: the os.access(command_path, os.X_OK) test is
\* missing.
ConfigResultNoAccess == cfg = "present" /\ cmdExists

\* The value check_config_file returns.
ConfigResult == cfg = "present" /\ cmdExists /\ cmdExec

\* The checks of check_config_file in the order of the code.
CheckOrder ==
    <<"config_exists", "json_load", "server_key", "command_exists",
      "command_access">>

\* The condition each check of check_config_file tests, on the filesystem:
\* os.path.exists(config_path), json.load, the server key,
\* os.path.exists(command_path), os.access(command_path, os.X_OK).
Holds(c) ==
    CASE c = "config_exists" -> cfg # "missing"
      [] c = "json_load" -> cfg \notin {"missing", "badjson"}
      [] c = "server_key" -> cfg \in {"nocommand", "present"}
      [] c = "command_exists" -> cfg = "present" /\ cmdExists
      [] c = "command_access" -> cfg = "present" /\ cmdExec
      [] OTHER -> FALSE

\* config_ok = check_config_file()
CheckConfigFile ==
    /\ apc = "check_config"
    /\ evaluated' = ConfigChecks
    /\ aconsole' = aconsole \o ConfigPrints
    /\ config_ok' = ConfigResult
    /\ apc' = "test_server"
    /\ UNCHANGED <<server_ok, aproc, spawnedPath, spawnAttempts, requestsSent,
                   astdout, returncode, killCalls, awaitCalls, exitCode>>
    /\ auditIdle

\* Variant of SpawnServer: a failed Popen is not caught and test_server goes
\* on to communicate.
SpawnServerNoCatch ==
    /\ apc = "test_server"
    /\ spawnAttempts' = spawnAttempts + 1
    /\ spawnedPath' = LocalServer
    /\ aproc' = IF binOk THEN "running" ELSE aproc
    /\ apc' = "communicate"
    /\ UNCHANGED <<config_ok, server_ok, evaluated, aconsole, requestsSent,
                   astdout, returncode, killCalls, awaitCalls, exitCode>>
    /\ auditIdle

\* test_server: subprocess.Popen(["./mcp-server"], cwd=<script directory>).
\* A failure to execute the file is caught by the outer except clauses and
\* test_server returns False.
SpawnServer ==
    /\ apc = "test_server"
    /\ spawnAttempts' = spawnAttempts + 1
    /\ spawnedPath' = LocalServer
    /\ IF binOk
       THEN /\ aproc' = "running"
            /\ apc' = "communicate"
            /\ server_ok' = server_ok
            /\ aconsole' = aconsole
       ELSE /\ aproc' = aproc
            /\ apc' = "decide"
            /\ server_ok' = FALSE
            /\ aconsole' = Append(aconsole, "server_not_found")
    /\ UNCHANGED <<config_ok, evaluated, requestsSent, astdout, returncode,
                   killCalls, awaitCalls, exitCode>>
    /\ auditIdle

\* process.communicate(input=init_request, timeout=5), start: the request
\* is written to the stdin of the subprocess and stdin is closed.
Communicate ==
    /\ apc = "communicate"
    /\ requestsSent' = requestsSent + 1
    /\ apc' = "communicating"
    /\ UNCHANGED <<config_ok, server_ok, evaluated, aconsole, aproc,
                   spawnedPath, spawnAttempts, astdout, returncode, killCalls,
                   awaitCalls, exitCode>>
    /\ auditIdle

\* communicate returns once the subprocess has exited: it has read the
\* output and waited for the subprocess. Then
\* `if process.returncode == 0 or stdout` decides the result.
CommunicateReturn ==
    /\ apc = "communicating"
    /\ aproc = "exited"
    /\ aproc' = "reaped"
    /\ awaitCalls' = awaitCalls + 1
    /\ IF returncode = 0 \/ astdout
       THEN /\ server_ok' = TRUE
            /\ aconsole' = Append(aconsole, "server_responds")
       ELSE /\ server_ok' = FALSE
            /\ aconsole' = Append(aconsole, "server_failed")
    /\ apc' = "decide"
    /\ UNCHANGED <<config_ok, evaluated, spawnedPath, spawnAttempts,
                   requestsSent, astdout, returncode, killCalls, exitCode>>
    /\ auditIdle

\* Variant of CommunicateTimeout: the timeout is reported as a failure.
CommunicateTimeoutFail ==
    /\ apc = "communicating"
    /\ aproc = "running"
    /\ killCalls' = killCalls + 1
    /\ aproc' = "exited"
    /\ returncode' = 1
    /\ server_ok' = FALSE
    /\ aconsole' = Append(aconsole, "server_timed_out")
    /\ apc' = "decide"
    /\ UNCHANGED <<config_ok, evaluated, spawnedPath, spawnAttempts,
                   requestsSent, astdout, awaitCalls, exitCode>>
    /\ auditIdle

\* except subprocess.TimeoutExpired: process.kill(); return True. The
\* subprocess is killed and not waited for.
CommunicateTimeout ==
    /\ apc = "communicating"
    /\ aproc = "running"
    /\ killCalls' = killCalls + 1
    /\ aproc' = "exited"
    /\ returncode' = 1
    /\ server_ok' = TRUE
    /\ aconsole' = Append(aconsole, "server_timed_out")
    /\ apc' = "decide"
    /\ UNCHANGED <<config_ok, evaluated, spawnedPath, spawnAttempts,
                   requestsSent, astdout, awaitCalls, exitCode>>
    /\ auditIdle

\* Any other exception out of communicate reaches `except Exception` of the
\* outer try: test_server returns False and leaves the subprocess alone.
CommunicateError ==
    /\ apc = "communicating"
    /\ server_ok' = FALSE
    /\ aconsole' = Append(aconsole, "error_testing")
    /\ apc' = "decide"
    /\ UNCHANGED <<config_ok, evaluated, aproc, spawnedPath, spawnAttempts,
                   requestsSent, astdout, returncode, killCalls, awaitCalls,
                   exitCode>>
    /\ auditIdle

\* Variant of Decide: the verdicts are combined with `or`.
DecideOr ==
    /\ apc = "decide"
    /\ IF config_ok \/ server_ok
       THEN /\ exitCode' = 0
            /\ aconsole' = Append(aconsole, "all_good")
       ELSE /\ exitCode' = 1
            /\ aconsole' = Append(aconsole, "issues_found")
    /\ apc' = "exited"
    /\ UNCHANGED <<config_ok, server_ok, evaluated, aproc, spawnedPath,
                   spawnAttempts, requestsSent, astdout, returncode, killCalls,
                   awaitCalls>>
    /\ auditIdle

\* main(): `if config_ok and server_ok` falls off the end (exit status 0),
\* else sys.exit(1).
Decide ==
    /\ apc = "decide"
    /\ IF config_ok /\ server_ok
       THEN /\ exitCode' = 0
            /\ aconsole' = Append(aconsole, "all_good")
       ELSE /\ exitCode' = 1
            /\ aconsole' = Append(aconsole, "issues_found")
    /\ apc' = "exited"
    /\ UNCHANGED <<config_ok, server_ok, evaluated, aproc, spawnedPath,
                   spawnAttempts, requestsSent, astdout, returncode, killCalls,
                   awaitCalls>>
    /\ auditIdle

\* The subprocess of test_server writes to its stdout.
AuditServerWrite ==
    /\ aproc = "running"
    /\ ~astdout
    /\ astdout' = TRUE
    /\ UNCHANGED <<apc, config_ok, server_ok, evaluated, aconsole, aproc,
                   spawnedPath, spawnAttempts, requestsSent, returncode,
                   killCalls, awaitCalls, exitCode>>
    /\ auditIdle

\* The subprocess of test_server exits with status 0 or 1.
AuditServerExit ==
    /\ aproc = "running"
    /\ aproc' = "exited"
    /\ returncode' \in {0, 1}
    /\ UNCHANGED <<apc, config_ok, server_ok, evaluated, aconsole,
                   spawnedPath, spawnAttempts, requestsSent, astdout,
                   killCalls, awaitCalls, exitCode>>
    /\ auditIdle

ProbeMain == Spawn \/ Write \/ Read \/ Check \/ Summary \/ Except
                \/ Terminate \/ Wait

ProbeServer == ServerWrite \/ ServerExit

AuditMain == CheckConfigFile \/ SpawnServer \/ Communicate
                \/ CommunicateReturn \/ CommunicateTimeout
                \/ CommunicateError \/ Decide

AuditServer == AuditServerWrite \/ AuditServerExit

Next == ProbeMain \/ ProbeServer \/ AuditMain \/ AuditServer

Spec == Init /\ [][Next]_vars

\* The scripts are sequential programs: a step of main() that can be taken
\* is taken. Nothing is assumed of the subprocess.
FairSpec == Spec /\ WF_vars(ProbeMain) /\ WF_vars(AuditMain)

----------------------------------------------------------------------------
\* Properties of test_client.py

\* Requests written whose send_request call has not finished reading.
Outstanding == {i \in 1..Len(sent) : sent[i] \notin resolved}

\* The if of step k has been left without an exception.
Past(k) ==
    \/ step > k
    \/ k = NumSteps /\ errStep = 0
         /\ pc \in {"summary", "terminate", "wait", "done"}

\* Outcome lines printed for step k.
Records(k) == {i \in 1..Len(console) : console[i].step = k}

IsObject(r) == r.kind \in {"error", "result"}

\* C1: requests and responses alternate strictly: at most one request is
\* outstanding at any time, and when main() is about to write the next
\* request every earlier request has been resolved.
C1_StrictAlternation ==
    /\ Cardinality(Outstanding) <= 1
    /\ pc = "write" => Outstanding = {}

C1_Witness == pc = "read" /\ Len(sent) = 3 /\ resolved = {1, 2}

\* C2: once the subprocess is spawned, main() ends only after exactly one
\* terminate and exactly one wait, with the subprocess reaped, on the normal
\* path and on the exception path; main() ends without them only when the
\* spawn itself failed.
C2_SessionDisposal ==
    /\ terminateCalls <= 1
    /\ waitCalls <= 1
    /\ pc = "done" => terminateCalls = 1 /\ waitCalls = 1 /\ proc = "reaped"
    /\ pc = "crashed" => proc = "none"

C2_Witness == pc = "done" /\ errStep = 3 /\ proc = "reaped"

\* C3 (as claimed): every receive returns, also when the subprocess stays
\* alive and never writes a line, so the run goes on to its end.
C3_ReceiveReturns == (pc = "read") ~> (pc # "read")

\* C4 (as claimed): after a failed initialize step no further request is
\* sent.
C4_HandshakeGate ==
    Outcome(1, "fail") \in Range(console) => Len(sent) <= 1

\* C5 (as claimed): every step 2..7 that was attempted and left has exactly
\* one recorded pass or fail outcome.
C5_StepOutcomeRecorded ==
    \A k \in 2..NumSteps : Past(k) => Cardinality(Records(k)) = 1

\* C6 (as claimed): an exception in a step 2..6 is confined to that step: the
\* run ends with all seven requests sent.
C6_LocalRecovery ==
    (pc = "done" /\ errStep \in 2..(NumSteps - 1)) => Len(sent) = NumSteps

\* C7 (as claimed): the overall-success line is printed only if every one of
\* the seven steps passed.
C7_SuccessOnlyIfAllPassed ==
    Outcome(0, "completed") \in Range(console)
        => \A k \in 1..NumSteps : Outcome(k, "pass") \in Range(console)

\* C8 (as claimed): whatever the subprocess writes, the response object step
\* k tests carries id k.
C8_ResponseCorrelation ==
    (pc = "check" /\ IsObject(response)) => response.id = step

\* C8 (amended): with a subprocess that answers each request, in order, with
\* one response object carrying the id of the request and writes nothing
\* else, the response object step k tests carries id k.
C8_CorrelationConforming ==
    (conforming /\ pc = "check" /\ IsObject(response)) => response.id = step

C8_Witness ==
    conforming /\ pc = "check" /\ step = 3 /\ response = Line("result", 3, Fields)

\* C9: the k-th request written carries id k, so ids are unique and strictly
\* increasing from 1, whatever the outcome of the earlier steps.
C9_RequestIds == \A i \in 1..Len(sent) : sent[i] = i

C9_Witness ==
    Len(sent) = NumSteps /\ Outcome(1, "fail") \in Range(console)
        /\ Records(2) = {}

----------------------------------------------------------------------------
\* Properties of verify_config.py

\* C10 (as claimed): when check_config_file has failed, no subprocess is
\* spawned.
C10_NoSpawnAfterFailedAudit ==
    (apc \notin {"idle", "check_config"} /\ ~config_ok) => spawnAttempts = 0


\* check_config_file has returned.
ConfigChecked == apc \notin {"idle", "check_config"}

\* test_server has returned.
ServerTested == apc \in {"decide", "exited"}

\* C11: main() exits with a non-zero status exactly when config_ok or
\* server_ok is false; a configuration failure alone gives a non-zero status.
C11_ExitCode ==
    /\ apc = "exited" => (exitCode # 0 <=> (~config_ok \/ ~server_ok))
    /\ apc # "exited" => exitCode = -1

C11_Witness == apc = "exited" /\ ~config_ok /\ server_ok /\ exitCode = 1

\* C12 (as claimed): when the subprocess of test_server exited without
\* writing output, test_server returns False whatever the exit status.
C12_DeadServerFails ==
    (ServerTested /\ aproc = "reaped" /\ ~astdout) => ~server_ok

\* C13: when communicate timed out, test_server returns True and main() goes
\* on to its verdict.
C13_TimeoutSoftPass ==
    "server_timed_out" \in Range(aconsole) => (server_ok /\ ServerTested)

C13_Witness ==
    "server_timed_out" \in Range(aconsole) /\ apc = "exited" /\ exitCode = 0

\* C14 (as claimed): once test_server has returned after a successful spawn,
\* the subprocess has been waited for exactly once and is neither running nor
\* unreaped.
C14_AuditDisposal ==
    (ServerTested /\ aproc # "none") => (aproc = "reaped" /\ awaitCalls = 1)

\* C15 (as claimed): the executable test_server spawns is the one the
\* "command" field of the validated configuration names.
C15_SpawnsConfigured ==
    (config_ok /\ spawnAttempts > 0) => spawnedPath = cmdPath

\* C16 (as claimed): with no "command" field check_config_file returns False
\* without evaluating an existence or permission check on the path and
\* without printing that the server is configured.
C16_MissingCommand ==
    (ConfigChecked /\ cfg = "nocommand")
        => /\ ~config_ok
           /\ "command_exists" \notin Range(evaluated)
           /\ "command_access" \notin Range(evaluated)
           /\ "server_configured" \notin Range(aconsole)

\* C17: check_config_file returns True exactly when all five conditions hold;
\* it evaluates the checks in the order of the code, every check before the
\* last evaluated one held, a False result is decided by the last evaluated
\* check, and the function always returns.
C17_ConfigVerdict ==
    ConfigChecked =>
        /\ config_ok <=> \A i \in 1..Len(CheckOrder) : Holds(CheckOrder[i])
        /\ Len(evaluated) \in 1..Len(CheckOrder)
        /\ evaluated = SubSeq(CheckOrder, 1, Len(evaluated))
        /\ \A i \in 1..(Len(evaluated) - 1) : Holds(evaluated[i])
        /\ ~config_ok => ~Holds(evaluated[Len(evaluated)])
        /\ config_ok => evaluated = CheckOrder

C17_Witness ==
    ConfigChecked /\ ~config_ok /\ cfg = "present" /\ cmdExists
        /\ Len(evaluated) = 5

\* C18: when Popen fails in test_server, no request is sent, nothing is
\* killed or waited for, test_server returns False and main() exits with a
\* non-zero status.
C18_SpawnFailure ==
    (spawnAttempts > 0 /\ aproc = "none")
        => /\ requestsSent = 0
           /\ killCalls = 0
           /\ awaitCalls = 0
           /\ ~server_ok
           /\ ServerTested
           /\ apc = "exited" => exitCode = 1

C18_Witness ==
    spawnAttempts = 1 /\ aproc = "none" /\ config_ok /\ apc = "exited"
        /\ exitCode = 1

====
